---- MODULE Spec2Model ----
(***************************************************************************)
(* Model of the RS-DOS (Disk Extended Color BASIC) filesystem engine of    *)
(* fuse-rsdos: src/fuse_rsdos/rsdosfs.py and src/fuse_rsdos/writablefs.py. *)
(*                                                                         *)
(* The backing store is a regular file, so its size is probed by seek/tell *)
(* under self.lock (_getsize64 falls back to _getsize64_noioctl).          *)
(* Python assert statements are enabled (the interpreter's default).       *)
(* File content is not stored byte by byte: a chunk of data read from the  *)
(* image is the pair <<start, end>> of absolute byte addresses it came     *)
(* from, and slicing is done on these pairs as Python slices bytes.        *)
(***************************************************************************)
EXTENDS Integers, Sequences, FiniteSets, TLC

VARIABLES
    nbytes,   \* length in bytes of the backing store (self.io)
    gmap,     \* the 192 map bytes of track 17 sector 2, indexed by granule
    dir,      \* the 72 directory slots, each a sequence of 32 bytes
    lock,     \* self.lock: 0 when free, else the id of the holding thread
    call,     \* the engine call in progress or just finished, its result
    gen,      \* frame of the iter_granules generator serving the call
    thr       \* threads calling write_new_file

vars == <<nbytes, gmap, dir, lock, call, gen, thr>>

----------------------------------------------------------------------------
(* Bounds of the model                                                     *)

\* how many granules of TrackedOrder get arbitrary map bytes in Init
NTracked == 2
\* how many slots of SlotOrder get arbitrary contents in Init
NSlots == 3
\* a read length larger than any file
Huge == 1000000
\* number of threads calling write_new_file
NThreads == 2

TrackedOrder == <<5, 9, 34, 0, 1, 2>>
Tracked == {TrackedOrder[i] : i \in 1..NTracked}

\* map bytes tried: continuations to granules 5, 9 and 34, a continuation
\* outside the map (0xBF), terminals 0xC0 and 0xC3, an undefined code
\* (0xFE) and the free code (0xFF)
ByteVals == {5, 9, 34, 191, 192, 195, 254, 255}
\* first_granule bytes tried: the tracked granules and one outside the map
FirstVals == Tracked \cup {200}
\* last_sector_bytes_used values tried (the field is 16 bits wide)
LsbuVals == {0, 100, 300}
OffsetVals == {0, 100, 612, 13824}
LengthVals == {0, 50, Huge}
\* backing-store size: 35 tracks and 100 trailing bytes
SizeVals == {630 * 256 + 100}

----------------------------------------------------------------------------
(* Geometry                                                                *)

sectors_per_track == 18
sectors_per_granule == 9
bytes_per_sector == 256
directory_track == 17
directory_sectors == 9
max_granules == 192
directory_entry_size == 32

max_directory_entries ==
    (directory_sectors * bytes_per_sector) \div directory_entry_size

Min(a, b) == IF a <= b THEN a ELSE b

Ok(v) == [err |-> "none", val |-> v]
Raise(e) == [err |-> e, val |-> 0]

\* sector_count refusing an image of exactly the minimum size (<= in place
\* of <)
sector_count_MinExcluded(n) ==
    LET n_sectors == n \div bytes_per_sector
    IN  IF n_sectors <= (directory_track + 1) * sectors_per_track
        THEN Raise("FilesystemFatalError")
        ELSE Ok(n_sectors)

sector_count(n) ==
    LET n_sectors == n \div bytes_per_sector
    IN  IF n_sectors < (directory_track + 1) * sectors_per_track
        THEN Raise("FilesystemFatalError")
        ELSE Ok(n_sectors)

granule_count(n) ==
    LET sc == sector_count(n)
    IN  IF sc.err # "none" THEN sc
        ELSE Ok((sc.val - sectors_per_track) \div sectors_per_granule)

\* start of the byte range of sector_count sectors from 0-based sector n
sector_range_linear(n, count) ==
    <<n * bytes_per_sector, n * bytes_per_sector + bytes_per_sector * count>>

sector_range(cyl, secnr, count) ==
    IF ~(0 <= cyl) \/ ~(1 <= secnr /\ secnr <= sectors_per_track)
       \/ ~(0 <= count /\ count <= sectors_per_track - (secnr - 1))
    THEN Raise("IndexError")
    ELSE Ok(sector_range_linear(cyl * sectors_per_track + (secnr - 1), count))

\* granule_range_sectors skipping the directory track only past its first
\* sector (> in place of >=)
granule_range_sectors_SkipLate(granule) ==
    LET sec_start == granule * sectors_per_granule
        sec_end == (granule + 1) * sectors_per_granule
    IN  IF sec_start > directory_track * sectors_per_track
        THEN <<sec_start + sectors_per_track, sec_end + sectors_per_track>>
        ELSE <<sec_start, sec_end>>

granule_range_sectors(granule) ==
    LET sec_start == granule * sectors_per_granule
        sec_end == (granule + 1) * sectors_per_granule
    IN  IF sec_start >= directory_track * sectors_per_track
        THEN <<sec_start + sectors_per_track, sec_end + sectors_per_track>>
        ELSE <<sec_start, sec_end>>

granule_map_range(n) ==
    LET gc == granule_count(n)
        start == sector_range(directory_track, 2, 1).val[1]
    IN  IF gc.err # "none" THEN gc
        ELSE Ok(<<start, start + Min(gc.val, max_granules)>>)

\* os.pread of length bytes at offset, with the assertion that follows it;
\* the data is named by the addresses it was read from
pread(n, length, offset) ==
    IF Min(offset + length, n) - Min(offset, n) # length
    THEN Raise("AssertionError")
    ELSE Ok(<<offset, offset + length>>)

----------------------------------------------------------------------------
(* Allocation map                                                          *)

NoGi == [err |-> "none", msg |-> "", raw_value |-> 0, n |-> 0, next_n |-> 0,
         sectors_used |-> 0, bytes_used |-> 0, last |-> FALSE, free |-> FALSE]

\* fromraw taking 0xCA for a terminal code (<= 0xca in place of <= 0xc9)
GranuleInfo_fromraw_UpToCA(n, b, last_sector_bytes_used) ==
    IF 0 <= b /\ b < 192
    THEN [NoGi EXCEPT !.raw_value = b, !.n = n, !.next_n = b,
                      !.sectors_used = sectors_per_granule,
                      !.bytes_used = sectors_per_granule * bytes_per_sector]
    ELSE IF 192 <= b /\ b <= 202
    THEN LET sectors_used == b % 16
         IN  IF sectors_used = 0 /\ last_sector_bytes_used # 0
             THEN [NoGi EXCEPT !.err = "AssertionError", !.n = n,
                               !.raw_value = b]
             ELSE [NoGi EXCEPT !.raw_value = b, !.n = n,
                      !.sectors_used = sectors_used,
                      !.bytes_used =
                          IF sectors_used = 0 THEN 0
                          ELSE (sectors_used - 1) * bytes_per_sector
                               + last_sector_bytes_used,
                      !.last = TRUE]
    ELSE IF b = 255
    THEN [NoGi EXCEPT !.raw_value = b, !.n = n, !.last = TRUE, !.free = TRUE]
    ELSE [NoGi EXCEPT !.err = "RecoverableCorruption",
                      !.msg = "value out of range", !.n = n, !.raw_value = b]

GranuleInfo_fromraw(n, b, last_sector_bytes_used) ==
    IF 0 <= b /\ b < 192
    THEN [NoGi EXCEPT !.raw_value = b, !.n = n, !.next_n = b,
                      !.sectors_used = sectors_per_granule,
                      !.bytes_used = sectors_per_granule * bytes_per_sector]
    ELSE IF 192 <= b /\ b <= 201
    THEN LET sectors_used == b % 16
         IN  IF sectors_used = 0 /\ last_sector_bytes_used # 0
             THEN [NoGi EXCEPT !.err = "AssertionError", !.n = n,
                               !.raw_value = b]
             ELSE [NoGi EXCEPT !.raw_value = b, !.n = n,
                      !.sectors_used = sectors_used,
                      !.bytes_used =
                          IF sectors_used = 0 THEN 0
                          ELSE (sectors_used - 1) * bytes_per_sector
                               + last_sector_bytes_used,
                      !.last = TRUE]
    ELSE IF b = 255
    THEN [NoGi EXCEPT !.raw_value = b, !.n = n, !.last = TRUE, !.free = TRUE]
    ELSE [NoGi EXCEPT !.err = "RecoverableCorruption",
                      !.msg = "value out of range", !.n = n, !.raw_value = b]

\* the map byte of granule n, read from the image
read_granule(n) ==
    LET r == granule_map_range(nbytes)
    IN  IF r.err # "none" THEN r
        ELSE LET gmap_start == r.val[1]
                 gmap_end == r.val[2]
                 start == gmap_start + n
                 end == start + 1
             IN  IF ~(gmap_start <= start /\ start < gmap_end)
                    \/ ~(gmap_start <= end /\ end <= gmap_end)
                 THEN Raise("IndexError")
                 ELSE Ok(gmap[start - gmap_start])

----------------------------------------------------------------------------
(* Calls on the chain of a directory entry: iter_granules ("walk"),        *)
(* get_file_sizes ("file_sizes") and pread_file ("read").  The generator   *)
(* iter_granules runs from the top of its loop to its yield (GenFetch),    *)
(* the consumer's loop body runs on the yielded value (Consume), and the   *)
(* generator continues after its yield (GenResume).                        *)

NoCall == [op |-> "none", status |-> "idle", msg |-> "",
           first |-> 0, lsbu |-> 0, length |-> 0, offset |-> 0,
           raw |-> 0, include_free |-> FALSE, i |-> 0, entries |-> <<>>,
           out |-> <<>>, chunks |-> <<>>, remaining |-> 0,
           logical_size |-> 0, allocated_granules |-> 0,
           allocated_sectors |-> 0, preads |-> 0]

NoGen == [n |-> 0, seen |-> {}, status |-> "none", gi |-> NoGi]

ChainOps == {"walk", "file_sizes", "read"}

Finished == call.status \notin {"idle", "running"}

\* a client starts iter_granules, get_file_sizes or pread_file on a
\* directory entry with the given first_granule and last_sector_bytes_used
StartCall(op, first, lsbu, length, offset) ==
    /\ call.status = "idle"
    /\ call' = [NoCall EXCEPT !.op = op, !.status = "running",
                              !.first = first, !.lsbu = lsbu,
                              !.length = length, !.offset = offset,
                              !.remaining = length]
    /\ gen' = [NoGen EXCEPT !.n = first, !.status = "fetch"]
    /\ UNCHANGED <<nbytes, gmap, dir, lock, thr>>

\* iter_granules, lines 332-334: read the map byte, decode it, yield it
GenFetchStep(g, c) ==
    LET r == read_granule(g.n)
        gi == GranuleInfo_fromraw(g.n, r.val, c.lsbu)
    IN  IF r.err # "none"
        THEN <<[g EXCEPT !.status = "raised"], [c EXCEPT !.status = r.err]>>
        ELSE IF gi.err # "none"
        THEN <<[g EXCEPT !.status = "raised"],
               [c EXCEPT !.status = gi.err, !.msg = gi.msg]>>
        ELSE <<[g EXCEPT !.status = "yielded", !.gi = gi],
               [c EXCEPT !.out = Append(@, gi)]>>

GenFetch ==
    /\ call.status = "running"
    /\ gen.status = "fetch"
    /\ lock = 0
    /\ gen' = GenFetchStep(gen, call)[1]
    /\ call' = GenFetchStep(gen, call)[2]
    /\ UNCHANGED <<nbytes, gmap, dir, lock, thr>>

\* get_file_sizes, lines 384-385
get_file_sizes_body(c, gi) ==
    [c EXCEPT !.logical_size = @ + gi.bytes_used,
              !.allocated_granules = @ + 1]

\* iter_file_contents, lines 354-366, with pread_file's result.append
iter_file_contents_body(c, gi) ==
    LET gb == bytes_per_sector * sectors_per_granule
        g0 == c.offset \div gb
        b0 == c.offset % gb
        sec == granule_range_sectors(gi.n)
        rng == sector_range_linear(sec[1], gi.sectors_used)
        rd == pread(nbytes, rng[2] - rng[1], rng[1])
        d1 == <<rd.val[1], Min(rd.val[2], rd.val[1] + gi.bytes_used)>>
        d2 == IF gi.n = g0 THEN <<Min(d1[1] + b0, d1[2]), d1[2]>> ELSE d1
        d3 == IF d2[2] - d2[1] > c.remaining
              THEN <<d2[1], d2[1] + c.remaining>> ELSE d2
    IN  IF gi.free THEN [c EXCEPT !.status = "AssertionError"]
        ELSE IF gi.n < g0 THEN c
        ELSE IF rd.err # "none"
        THEN [c EXCEPT !.status = rd.err, !.preads = @ + 1]
        ELSE [c EXCEPT !.chunks = Append(@, d3),
                       !.remaining = @ - (d3[2] - d3[1]),
                       !.preads = @ + 1]

\* the loop body of the consumer of the generator, on the yielded value;
\* an exception in it closes the generator
ConsumeStep(g, c) ==
    LET c2 == CASE c.op = "walk" -> c
                [] c.op = "file_sizes" -> get_file_sizes_body(c, g.gi)
                [] c.op = "read" -> iter_file_contents_body(c, g.gi)
    IN  <<[g EXCEPT !.status =
              IF c2.status = "running" THEN "resume" ELSE "closed"], c2>>

Consume ==
    /\ call.status = "running"
    /\ gen.status = "yielded"
    /\ gen' = ConsumeStep(gen, call)[1]
    /\ call' = ConsumeStep(gen, call)[2]
    /\ UNCHANGED <<nbytes, gmap, dir, lock, thr>>

\* iter_granules after its yield, without the test of line 339
GenResumeStep_NoLoopCheck(g) ==
    LET seen == g.seen \cup {g.n}
    IN  IF g.gi.last
        THEN [g EXCEPT !.seen = seen, !.status = "stopped"]
        ELSE [g EXCEPT !.seen = seen, !.n = g.gi.next_n, !.status = "fetch"]

\* iter_granules after its yield, testing next_n against the granules seen
\* before the current one (seen.add moved after the test)
GenResumeStep_CheckBeforeAdd(g) ==
    LET seen == g.seen \cup {g.n}
    IN  IF g.gi.last
        THEN [g EXCEPT !.seen = seen, !.status = "stopped"]
        ELSE IF g.gi.next_n \in g.seen
        THEN [g EXCEPT !.seen = seen, !.n = g.gi.next_n, !.status = "loop"]
        ELSE [g EXCEPT !.seen = seen, !.n = g.gi.next_n, !.status = "fetch"]

\* iter_granules, lines 335-340: what the generator does after its yield
GenResumeStep(g) ==
    LET seen == g.seen \cup {g.n}
    IN  IF g.gi.last
        THEN [g EXCEPT !.seen = seen, !.status = "stopped"]
        ELSE IF g.gi.next_n \in seen
        THEN [g EXCEPT !.seen = seen, !.n = g.gi.next_n, !.status = "loop"]
        ELSE [g EXCEPT !.seen = seen, !.n = g.gi.next_n, !.status = "fetch"]

\* the consumer asks for the next value; when the generator stops, the
\* consumer's loop ends and the call returns (get_file_sizes line 386-387,
\* pread_file line 372); the generator's exception ends the call
AfterResume(g2, c) ==
    CASE g2.status = "stopped" ->
             [c EXCEPT !.status = "ok",
                       !.allocated_sectors =
                           c.allocated_granules * sectors_per_granule]
      [] g2.status = "loop" ->
             [c EXCEPT !.status = "RecoverableCorruption",
                       !.msg = "loop in granule map"]
      [] OTHER -> c

GenResume ==
    /\ call.status = "running"
    /\ gen.status = "resume"
    /\ gen' = GenResumeStep(gen)
    /\ call' = AfterResume(GenResumeStep(gen), call)
    /\ UNCHANGED <<nbytes, gmap, dir, lock, thr>>

\* the caller takes the result (or the exception) of the finished call
Return ==
    /\ Finished
    /\ call' = NoCall
    /\ gen' = NoGen
    /\ UNCHANGED <<nbytes, gmap, dir, lock, thr>>

----------------------------------------------------------------------------
(* Images                                                                  *)

\* a directory slot of a formatted disk: 32 bytes 0xFF
SlotFF == [i \in 1..directory_entry_size |-> 255]

FormattedDir == [s \in 0..(max_directory_entries - 1) |-> SlotFF]

NoThreads == [t \in 1..NThreads |->
                 [pc |-> "idle", name |-> <<>>, ext |-> <<>>,
                  len |-> 0, outcome |-> "none"]]

InitChain ==
    /\ nbytes \in SizeVals
    /\ \E f \in [Tracked -> ByteVals] :
          gmap = [g \in 0..(max_granules - 1) |->
                     IF g \in Tracked THEN f[g] ELSE 255]
    /\ dir = FormattedDir
    /\ lock = 0
    /\ call = NoCall
    /\ gen = NoGen
    /\ thr = NoThreads

NextChain ==
    \/ \E first \in FirstVals, lsbu \in LsbuVals :
          \/ StartCall("walk", first, lsbu, 0, 0)
          \/ StartCall("file_sizes", first, lsbu, 0, 0)
          \/ \E length \in LengthVals, offset \in OffsetVals :
                StartCall("read", first, lsbu, length, offset)
    \/ GenFetch
    \/ Consume
    \/ GenResume
    \/ Return

SpecChain == InitChain /\ [][NextChain]_vars

----------------------------------------------------------------------------
(* What the claims speak of, computed from the image alone                 *)

Last(s) == s[Len(s)]

MapLen == granule_map_range(nbytes).val[2] - granule_map_range(nbytes).val[1]

\* The chain of a first extent: the indices met by following continuation
\* codes, and how it ends: at a "terminal" code, at a "free" entry, at an
\* "undefined" code, at an index "outside" the map, or in a "loop".
RECURSIVE ChainSeq(_, _)
ChainSeq(n, acc) ==
    IF n \notin 0..(MapLen - 1) THEN [idx |-> acc, end |-> "outside"]
    ELSE IF \E i \in 1..Len(acc) : acc[i] = n
    THEN [idx |-> acc, end |-> "loop"]
    ELSE IF gmap[n] < 192 THEN ChainSeq(gmap[n], Append(acc, n))
    ELSE [idx |-> Append(acc, n),
          end |-> IF gmap[n] \in 192..201 THEN "terminal"
                  ELSE IF gmap[n] = 255 THEN "free" ELSE "undefined"]

Chain(first) == ChainSeq(first, <<>>)

\* the entry's chain is valid: continuation codes lead to a terminal code,
\* and a terminal extent with no sector used has no byte used in it
ValidEntry(first, lsbu) ==
    /\ Chain(first).end = "terminal"
    /\ gmap[Last(Chain(first).idx)] = 192 => lsbu = 0

\* bytes used in an extent by the decoding table
TableBytesUsed(b, lsbu) ==
    IF b < 192 THEN sectors_per_granule * bytes_per_sector
    ELSE IF b % 16 = 0 THEN 0
    ELSE ((b % 16) - 1) * bytes_per_sector + lsbu

GranuleStart(n) == granule_range_sectors(n)[1] * bytes_per_sector

\* the logical content of a file: its extents in chain order, each cut to
\* the bytes used in it, as address ranges of the image
Logical(first, lsbu) ==
    LET idx == Chain(first).idx
    IN  [i \in 1..Len(idx) |->
            <<GranuleStart(idx[i]),
              GranuleStart(idx[i]) + TableBytesUsed(gmap[idx[i]], lsbu)>>]

RECURSIVE TotalBytes(_)
TotalBytes(rs) ==
    IF rs = <<>> THEN 0 ELSE (Head(rs)[2] - Head(rs)[1]) + TotalBytes(Tail(rs))

\* bytes [off, off+len) of the concatenation of the ranges rs
RECURSIVE SliceRanges(_, _, _)
SliceRanges(rs, off, len) ==
    IF rs = <<>> THEN <<>>
    ELSE LET r == Head(rs)
             skip == Min(off, r[2] - r[1])
             take == Min(len, r[2] - r[1] - skip)
         IN  <<<<r[1] + skip, r[1] + skip + take>>>>
             \o SliceRanges(Tail(rs), off - skip, len - take)

\* the same bytes in one form: no empty range, adjacent ranges joined
RECURSIVE Canon(_)
Canon(rs) ==
    IF rs = <<>> THEN <<>>
    ELSE LET r == Head(rs)
             rest == Canon(Tail(rs))
         IN  IF r[1] = r[2] THEN rest
             ELSE IF rest # <<>> /\ rest[1][1] = r[2]
             THEN <<<<r[1], rest[1][2]>>>> \o Tail(rest)
             ELSE <<r>> \o rest

OutIndices == [i \in 1..Len(call.out) |-> call.out[i].n]

----------------------------------------------------------------------------
(* Claims on the chain calls, checked under SpecChain                      *)

\* C1 (as claimed): for an entry whose chain is valid (and whose
\* last_sector_bytes_used fits in a sector), read(entry, length, offset)
\* succeeds and returns exactly bytes [offset, min(offset+length, size)) of
\* the logical content, offset // extent_bytes being a position in the chain.
C1_ReadReturnsSlice ==
    (call.op = "read" /\ Finished /\ ValidEntry(call.first, call.lsbu)
     /\ call.lsbu <= bytes_per_sector)
    => /\ call.status = "ok"
       /\ Canon(call.chunks)
          = Canon(SliceRanges(Logical(call.first, call.lsbu),
                              call.offset, call.length))

\* C2: the walk never yields the same extent index twice, yields at most
\* one entry per allocation-map entry, is never stuck before it ends, and
\* on a valid chain it ends normally with the terminal entry yielded last.
C2_WalkTerminatesNoRepeat ==
    /\ \A i, j \in 1..Len(call.out) :
          i # j => call.out[i].n # call.out[j].n
    /\ \A i \in 1..Len(call.out) : call.out[i].n \in 0..(MapLen - 1)
    /\ Len(call.out) <= MapLen
    /\ call.status = "running"
       => (gen.status \in {"fetch", "yielded", "resume"} /\ lock = 0)
    /\ (call.op = "walk" /\ Finished /\ ValidEntry(call.first, call.lsbu))
       => /\ call.status = "ok"
          /\ call.out # <<>>
          /\ Last(call.out).last /\ ~Last(call.out).free
          /\ OutIndices = Chain(call.first).idx

C2_Witness ==
    /\ call.op = "walk" /\ call.status = "ok"
    /\ ValidEntry(call.first, call.lsbu)
    /\ Len(call.out) = 2

\* C3: when the entry yielded last is a continuation to an index the walk
\* has already yielded (itself included), the walk yields nothing more and
\* its next step fails with RecoverableCorruption("loop in granule map");
\* that failure happens in no other case; for the chain 5 -> 9 -> 5 the
\* walk yields 5, then 9, then fails.
C3_LoopDetected ==
    /\ \A k \in 1..Len(call.out) :
          (~call.out[k].last
           /\ \E i \in 1..k : call.out[i].n = call.out[k].next_n)
          => /\ k = Len(call.out)
             /\ \/ gen.status \in {"yielded", "resume"}
                \/ /\ call.status = "RecoverableCorruption"
                   /\ call.msg = "loop in granule map"
    /\ (call.status = "RecoverableCorruption"
        /\ call.msg = "loop in granule map")
       => /\ call.out # <<>>
          /\ ~Last(call.out).last
          /\ \E i \in 1..Len(call.out) :
                call.out[i].n = Last(call.out).next_n
    /\ (call.op = "walk" /\ Finished /\ call.first = 5
        /\ gmap[5] = 9 /\ gmap[9] = 5)
       => /\ OutIndices = <<5, 9>>
          /\ call.status = "RecoverableCorruption"
          /\ call.msg = "loop in granule map"

C3_Witness ==
    /\ call.op = "walk" /\ call.first = 5 /\ gmap[5] = 9 /\ gmap[9] = 5
    /\ OutIndices = <<5, 9>>
    /\ call.status = "RecoverableCorruption"

\* C4 (as claimed): when the chain of the entry reaches a free entry (0xFF),
\* as the first extent or after a continuation, walk, file_sizes and read
\* fail with RecoverableCorruption.
C4_FreeEntryIsCorruption ==
    (Finished /\ call.op \in ChainOps /\ Chain(call.first).end = "free")
    => call.status = "RecoverableCorruption"

\* what file_sizes reports is the sum of bytes_used over the chain
FileSizesIsSum ==
    (call.op = "file_sizes" /\ call.status = "ok"
     /\ ValidEntry(call.first, call.lsbu))
    => /\ call.logical_size = TotalBytes(Logical(call.first, call.lsbu))
       /\ call.allocated_sectors
          = Len(Chain(call.first).idx) * sectors_per_granule

\* C6 (as claimed): when the walk of the entry succeeds, read(entry, huge, 0)
\* returns as many bytes as the logical size file_sizes reports for it (the
\* sum of bytes_used over the chain), whatever last_sector_bytes_used is.
C6_ReadHugeIsLogicalSize ==
    (call.op = "read" /\ Finished /\ call.length = Huge /\ call.offset = 0
     /\ ValidEntry(call.first, call.lsbu))
    => /\ call.status = "ok"
       /\ TotalBytes(call.chunks)
          = TotalBytes(Logical(call.first, call.lsbu))

\* C9 (as claimed): walk, file_sizes and read either succeed or fail with
\* RecoverableCorruption, for every map content and every entry.
C9_OnlyRecoverableCorruption ==
    (Finished /\ call.op \in ChainOps)
    => call.status \in {"ok", "RecoverableCorruption"}

----------------------------------------------------------------------------
(* Decoding one allocation-map byte                                        *)

DecodeLsbuVals == {0, 1, 100, 256, 65535}
DecodeIndexVals == {0, 5}

\* a client decodes the map byte b of granule n for an entry whose
\* last_sector_bytes_used is lsbu
DecodeEntry(n, b, lsbu) ==
    /\ call.status = "idle"
    /\ call' = [NoCall EXCEPT
                   !.op = "decode", !.first = n, !.raw = b, !.lsbu = lsbu,
                   !.msg = GranuleInfo_fromraw(n, b, lsbu).msg,
                   !.status =
                       IF GranuleInfo_fromraw(n, b, lsbu).err = "none"
                       THEN "ok" ELSE GranuleInfo_fromraw(n, b, lsbu).err]
    /\ gen' = [NoGen EXCEPT !.gi = GranuleInfo_fromraw(n, b, lsbu)]
    /\ UNCHANGED <<nbytes, gmap, dir, lock, thr>>

InitDecode ==
    /\ nbytes \in SizeVals
    /\ gmap = [g \in 0..(max_granules - 1) |-> 255]
    /\ dir = FormattedDir
    /\ lock = 0
    /\ call = NoCall
    /\ gen = NoGen
    /\ thr = NoThreads

NextDecode ==
    \/ \E n \in DecodeIndexVals, b \in 0..255, lsbu \in DecodeLsbuVals :
          DecodeEntry(n, b, lsbu)
    \/ Return

SpecDecode == InitDecode /\ [][NextDecode]_vars

\* C5 (as claimed): the decoding table with terminal codes [0xC0, 0xCA]:
\* a byte below 0xC0 is a continuation to that extent with 9 sectors and
\* 2304 bytes used; a byte in [0xC0, 0xCA] is terminal with sectors_used =
\* low nibble and bytes_used = 0 when no sector is used, otherwise
\* (sectors_used-1)*256 + last_sector_bytes_used; 0xFF is free; every
\* other byte fails with RecoverableCorruption.  (0xC0 is taken with
\* last_sector_bytes_used = 0, the pairing the table defines.)
C5_DecodeTableAsClaimed ==
    (call.op = "decode" /\ Finished)
    => LET b == call.raw
           gi == gen.gi
       IN  /\ b < 192
              => /\ call.status = "ok" /\ ~gi.last /\ ~gi.free
                 /\ gi.next_n = b /\ gi.n = call.first
                 /\ gi.sectors_used = 9 /\ gi.bytes_used = 2304
           /\ (192 <= b /\ b <= 202 /\ ~(b = 192 /\ call.lsbu # 0))
              => /\ call.status = "ok" /\ gi.last /\ ~gi.free
                 /\ gi.sectors_used = b % 16
                 /\ gi.bytes_used = IF b % 16 = 0 THEN 0
                                    ELSE ((b % 16) - 1) * 256 + call.lsbu
           /\ b = 255 => (call.status = "ok" /\ gi.free)
           /\ (202 < b /\ b < 255) => call.status = "RecoverableCorruption"

\* C5 (amended): the same table with terminal codes [0xC0, 0xC9]; 0xC0
\* decodes (to no sector and no byte used) when last_sector_bytes_used = 0
\* and fails on the decoder's assertion otherwise; every byte in
\* [0xCA, 0xFE] fails with RecoverableCorruption.  0xC3 with 100 gives 3
\* sectors and 612 bytes.
C5_DecodeTable ==
    (call.op = "decode" /\ Finished)
    => LET b == call.raw
           gi == gen.gi
       IN  /\ b < 192
              => /\ call.status = "ok" /\ ~gi.last /\ ~gi.free
                 /\ gi.next_n = b /\ gi.n = call.first
                 /\ gi.sectors_used = 9 /\ gi.bytes_used = 2304
           /\ (192 <= b /\ b <= 201 /\ ~(b = 192 /\ call.lsbu # 0))
              => /\ call.status = "ok" /\ gi.last /\ ~gi.free
                 /\ gi.n = call.first
                 /\ gi.sectors_used = b % 16
                 /\ gi.bytes_used = IF b % 16 = 0 THEN 0
                                    ELSE ((b % 16) - 1) * 256 + call.lsbu
           /\ (b = 192 /\ call.lsbu # 0) => call.status = "AssertionError"
           /\ b = 255
              => /\ call.status = "ok" /\ gi.free /\ gi.last
                 /\ gi.sectors_used = 0 /\ gi.bytes_used = 0
           /\ (201 < b /\ b < 255) => call.status = "RecoverableCorruption"
           /\ (b = 195 /\ call.lsbu = 100)
              => (gi.sectors_used = 3 /\ gi.bytes_used = 612)

C5_Witness ==
    /\ call.op = "decode" /\ call.raw = 202
    /\ call.status = "RecoverableCorruption"

----------------------------------------------------------------------------
(* Directory                                                               *)

SlotOrder == <<0, 1, 71, 2, 3>>
TrackedSlots == {SlotOrder[i] : i \in 1..NSlots}

\* the first bytes of a slot followed by a filler up to 32 bytes
SlotOf(prefix, fill) ==
    [i \in 1..directory_entry_size |->
        IF i <= Len(prefix) THEN prefix[i] ELSE fill]

\* a slot never written: 32 zero bytes
SlotNull == SlotOf(<<>>, 0)
\* a deleted file: first filename byte 0, the rest of the entry kept
SlotDeleted == SlotOf(<<0, 65, 32, 32, 32, 32, 32, 32, 66, 65, 83,
                        0, 0, 5, 0, 100>>, 0)
\* A.BAS, first granule 5, 100 bytes used in the last sector
SlotUsedA == SlotOf(<<65, 32, 32, 32, 32, 32, 32, 32, 66, 65, 83,
                      0, 0, 5, 0, 100>>, 0)
\* a file whose name starts with 0xFF but is not all 0xFF, first granule 9,
\* 300 (0x012C) bytes used in the last sector
SlotUsedFF == SlotOf(<<255, 66, 32, 32, 32, 32, 32, 32, 68, 65, 84,
                       1, 255, 9, 1, 44>>, 0)

SlotVals == {SlotNull, SlotFF, SlotDeleted, SlotUsedA, SlotUsedFF}
FillVals == {SlotNull, SlotFF}

NoDentry == [err |-> "none", n |-> 0, filename |-> <<>>, extension |-> <<>>,
             filetype |-> 0, ascii_flag |-> 0, first_granule |-> 0,
             last_sector_bytes_used |-> 0, reserved |-> <<>>,
             free |-> FALSE, null |-> FALSE]

\* unpack("!8s3sBBBH16s", raw) and the two flags computed from the bytes
DirectoryEntry_fromraw(n, raw) ==
    LET filename == SubSeq(raw, 1, 8)
    IN  [err |-> "none", n |-> n,
         filename |-> filename,
         extension |-> SubSeq(raw, 9, 11),
         filetype |-> raw[12],
         ascii_flag |-> raw[13],
         first_granule |-> raw[14],
         last_sector_bytes_used |-> raw[15] * 256 + raw[16],
         reserved |-> SubSeq(raw, 17, 32),
         free |-> (filename[1] = 0
                   \/ {filename[i] : i \in 1..8} = {255}),
         null |-> ({raw[i] : i \in 1..Len(raw)} = {0})]

directory_entry_range(n) ==
    LET d == sector_range(directory_track, 3, directory_sectors)
        d_start == d.val[1]
        d_end == d.val[2]
        dent_start == d_start + n * directory_entry_size
        dent_end == dent_start + directory_entry_size
    IN  IF d.err # "none" THEN d
        ELSE IF ~(d_start <= dent_start /\ dent_start < d_end)
                \/ ~(d_start <= dent_end /\ dent_end <= d_end)
        THEN Raise("IndexError")
        ELSE Ok(<<dent_start, dent_end>>)

\* the 32 bytes of slot n as pread returns them
read_directory_entry(n) ==
    LET r == directory_entry_range(n)
        p == pread(nbytes, r.val[2] - r.val[1], r.val[1])
        d_start == sector_range(directory_track, 3, directory_sectors).val[1]
    IN  IF r.err # "none" THEN r
        ELSE IF p.err # "none" THEN p
        ELSE Ok(dir[(p.val[1] - d_start) \div directory_entry_size])

\* a client collects iter_directory_entries(include_free=...) into a list
StartEnumerate(include_free) ==
    /\ call.status = "idle"
    /\ call' = [NoCall EXCEPT !.op = "enumerate", !.status = "running",
                              !.include_free = include_free]
    /\ UNCHANGED <<nbytes, gmap, dir, lock, gen, thr>>

\* the loop of iter_directory_entries stopping at the first null slot
\* (break in place of the first continue)
iter_directory_entries_step_Break(c) ==
    LET r == read_directory_entry(c.i)
        dentry == DirectoryEntry_fromraw(c.i, r.val)
    IN  IF c.i >= max_directory_entries THEN [c EXCEPT !.status = "ok"]
        ELSE IF r.err # "none" THEN [c EXCEPT !.status = r.err]
        ELSE IF dentry.null THEN [c EXCEPT !.status = "ok"]
        ELSE IF dentry.free /\ ~c.include_free THEN [c EXCEPT !.i = @ + 1]
        ELSE [c EXCEPT !.i = @ + 1, !.entries = Append(@, dentry)]

\* one iteration of the loop of iter_directory_entries with the consumer's
\* append of the yielded entry; the range exhausted, the call returns
iter_directory_entries_step(c) ==
    LET r == read_directory_entry(c.i)
        dentry == DirectoryEntry_fromraw(c.i, r.val)
    IN  IF c.i >= max_directory_entries THEN [c EXCEPT !.status = "ok"]
        ELSE IF r.err # "none" THEN [c EXCEPT !.status = r.err]
        ELSE IF dentry.null THEN [c EXCEPT !.i = @ + 1]
        ELSE IF dentry.free /\ ~c.include_free THEN [c EXCEPT !.i = @ + 1]
        ELSE [c EXCEPT !.i = @ + 1, !.entries = Append(@, dentry)]

DirStep ==
    /\ call.op = "enumerate"
    /\ call.status = "running"
    /\ call' = iter_directory_entries_step(call)
    /\ UNCHANGED <<nbytes, gmap, dir, lock, gen, thr>>

InitDir ==
    /\ nbytes \in SizeVals
    /\ gmap = [g \in 0..(max_granules - 1) |-> 255]
    /\ \E f \in [TrackedSlots -> SlotVals], fill \in FillVals :
          dir = [s \in 0..(max_directory_entries - 1) |->
                    IF s \in TrackedSlots THEN f[s] ELSE fill]
    /\ lock = 0
    /\ call = NoCall
    /\ gen = NoGen
    /\ thr = NoThreads

NextDir ==
    \/ \E include_free \in BOOLEAN : StartEnumerate(include_free)
    \/ DirStep
    \/ Return

SpecDir == InitDir /\ [][NextDir]_vars

\* the claim's words on the raw bytes of a slot
NullRaw(raw) == \A i \in 1..directory_entry_size : raw[i] = 0
FreeRaw(raw) == raw[1] = 0 \/ \A i \in 1..8 : raw[i] = 255

\* the slots below upto that the claim says are yielded, in slot order
SlotsToYield(include_free, upto) ==
    LET keep(s) == /\ s < upto
                   /\ ~NullRaw(dir[s])
                   /\ (include_free \/ ~FreeRaw(dir[s]))
    IN  SelectSeq([k \in 1..max_directory_entries |-> k - 1], keep)

\* C7: enumerate(include_free) yields exactly the slots 0..71 that are not
\* null and, when include_free is false, not free, in increasing slot
\* order, each entry decoded from the bytes of its slot; it does not stop
\* at a null or free slot (at every step the entries collected are those
\* of the slots visited so far, and it ends only after slot 71).
C7_EnumerateYieldsNonNullSlots ==
    call.op = "enumerate" =>
        /\ call.status \in {"running", "ok"}
        /\ call.status = "ok" => call.i = max_directory_entries
        /\ [k \in 1..Len(call.entries) |-> call.entries[k].n]
              = SlotsToYield(call.include_free, call.i)
        /\ \A k \in 1..Len(call.entries) :
              call.entries[k]
                 = DirectoryEntry_fromraw(call.entries[k].n,
                                          dir[call.entries[k].n])

\* an enumeration without free entries has finished and yielded a used
\* slot that lies after a null slot and after a free slot
C7_Witness ==
    /\ call.op = "enumerate" /\ call.status = "ok" /\ ~call.include_free
    /\ Len(call.entries) > 0
    /\ \E s1, s2 \in 0..(max_directory_entries - 1) :
          /\ s1 < call.entries[Len(call.entries)].n
          /\ s2 < call.entries[Len(call.entries)].n
          /\ NullRaw(dir[s1])
          /\ FreeRaw(dir[s2]) /\ ~NullRaw(dir[s2])

----------------------------------------------------------------------------
(* Names and lookup                                                        *)

\* bytes.rstrip(c)
RECURSIVE rstrip(_, _)
rstrip(s, c) ==
    IF s # <<>> /\ s[Len(s)] = c THEN rstrip(SubSeq(s, 1, Len(s) - 1), c)
    ELSE s

\* the 32 characters of the decoding table after the 128 of ASCII
decoding_table_high ==
    <<199, 252, 233, 226, 228, 224, 229, 231, 234, 235, 232, 239, 238, 223,
      196, 197, 243, 230, 198, 244, 246, 248, 251, 249, 216, 364, 220, 167,
      163, 177, 186, 402>>

\* decode('tandycoco-hires', 'surrogateescape') of one byte, as a code
\* point: a byte beyond the table becomes the lone surrogate U+DC00 + b
tandycoco_hires_decode(b) ==
    IF b < 128 THEN b
    ELSE IF b - 127 <= Len(decoding_table_high)
    THEN decoding_table_high[b - 127]
    ELSE 56320 + b

pretty_filename_bytes(filename, extension) ==
    rstrip(filename, 32) \o <<46>> \o rstrip(extension, 32)

pretty_filename(filename, extension) ==
    LET bs == pretty_filename_bytes(filename, extension)
    IN  [k \in 1..Len(bs) |-> tandycoco_hires_decode(bs[k])]

\* directory_lookup from slot i on: the first entry that is neither null
\* nor free and whose pretty name is name, or None
RECURSIVE directory_lookup_from(_, _)
directory_lookup_from(i, name) ==
    LET r == read_directory_entry(i)
        dentry == DirectoryEntry_fromraw(i, r.val)
    IN  IF i >= max_directory_entries
        THEN [err |-> "none", found |-> FALSE, dentry |-> NoDentry]
        ELSE IF r.err # "none"
        THEN [err |-> r.err, found |-> FALSE, dentry |-> NoDentry]
        ELSE IF ~dentry.null /\ ~dentry.free
                /\ pretty_filename(dentry.filename, dentry.extension) = name
        THEN [err |-> "none", found |-> TRUE, dentry |-> dentry]
        ELSE directory_lookup_from(i + 1, name)

directory_lookup(name) == directory_lookup_from(0, name)

ceildiv(a, b) == -((-a) \div b)

----------------------------------------------------------------------------
(* Writing a new file                                                      *)

Threads == 1..NThreads

NameA == <<65, 32, 32, 32, 32, 32, 32, 32>>
NameB == <<66, 32, 32, 32, 32, 32, 32, 32>>
ExtBAS == <<66, 65, 83>>
ExtDAT == <<68, 65, 84>>
\* (filename, extension) pairs written: A.BAS and B.DAT
WriteNames == {<<NameA, ExtBAS>>, <<NameB, ExtDAT>>}
\* content lengths written: empty, one full sector, three extents
WriteLens == {0, 256, 5000}

\* write_new_file, lines 31-32: the content is copied and measured; the
\* thread then waits for the lock
WriteCall(t, filename, extension, len) ==
    /\ thr[t].pc = "idle"
    /\ thr' = [thr EXCEPT ![t] = [pc |-> "lock", name |-> filename,
                                  ext |-> extension, len |-> len,
                                  outcome |-> "none"]]
    /\ UNCHANGED <<nbytes, gmap, dir, lock, call, gen>>

\* a with statement that enters without waiting for the lock to be free
WriteAcquire_NoWait(t) ==
    /\ thr[t].pc = "lock"
    /\ lock' = t
    /\ thr' = [thr EXCEPT ![t].pc = "body"]
    /\ UNCHANGED <<nbytes, gmap, dir, call, gen>>

\* line 33: with self.lock blocks until the lock is free and takes it
WriteAcquire(t) ==
    /\ thr[t].pc = "lock"
    /\ lock = 0
    /\ lock' = t
    /\ thr' = [thr EXCEPT ![t].pc = "body"]
    /\ UNCHANGED <<nbytes, gmap, dir, call, gen>>

\* _write_new_file: the assertion of line 37 needs the lock held; line 38
\* reads the name length, which is bound in write_new_file only and in no
\* enclosing or global scope, so the body ends there with NameError
write_new_file_body(t) ==
    IF lock = 0 THEN "AssertionError" ELSE "NameError"

\* a body that goes on to its free-extent scan: _find_free_granules reads
\* the map, whose range asks for the size of the image, and the size
\* probe (_getsize64_noioctl) waits for the lock to be free
WriteBody_ReachesScan(t) ==
    /\ thr[t].pc = "body"
    /\ lock = 0
    /\ thr' = [thr EXCEPT ![t].pc = "returned", ![t].outcome = "ok"]
    /\ UNCHANGED <<nbytes, gmap, dir, lock, call, gen>>

\* lines 34-38 and the exit of the with statement, which releases the lock
\* as the exception leaves it; nothing was written
WriteBody(t) ==
    /\ thr[t].pc = "body"
    /\ thr' = [thr EXCEPT ![t].pc = "returned",
                          ![t].outcome = write_new_file_body(t)]
    /\ lock' = 0
    /\ UNCHANGED <<nbytes, gmap, dir, call, gen>>

\* the caller of write_new_file receives its outcome
WriteReturn(t) ==
    /\ thr[t].pc = "returned"
    /\ thr' = [thr EXCEPT ![t] = NoThreads[t]]
    /\ UNCHANGED <<nbytes, gmap, dir, lock, call, gen>>

\* a formatted image, or one holding A.BAS in slot 0 and granule 5
InitWrite ==
    /\ nbytes \in SizeVals
    /\ \E hasA \in BOOLEAN :
          /\ gmap = [g \in 0..(max_granules - 1) |->
                        IF hasA /\ g = 5 THEN 195 ELSE 255]
          /\ dir = [FormattedDir EXCEPT
                       ![0] = IF hasA THEN SlotUsedA ELSE SlotFF]
    /\ lock = 0
    /\ call = NoCall
    /\ gen = NoGen
    /\ thr = NoThreads

NextWrite ==
    \E t \in Threads :
        \/ \E nm \in WriteNames, len \in WriteLens :
              WriteCall(t, nm[1], nm[2], len)
        \/ WriteAcquire(t)
        \/ WriteBody(t)
        \/ WriteReturn(t)

SpecWrite == InitWrite /\ [][NextWrite]_vars

\* the image has a free directory slot
HasFreeSlot ==
    \E s \in 0..(max_directory_entries - 1) : FreeRaw(dir[s])

\* number of free extents of the image
FreeExtents == Cardinality({g \in 0..(MapLen - 1) : gmap[g] = 255})

\* C8: on an image with a free directory slot and enough free extents, a
\* returned write_new_file(name, ext, ..., content) has succeeded, lookup
\* of "NAME.EXT" finds an entry, and that entry's chain is valid and holds
\* exactly len(content) bytes, for content of length 0, 256 and 5000.
C8_WriteThenReadBack ==
    \A t \in Threads :
        (/\ thr[t].pc = "returned"
         /\ HasFreeSlot
         /\ FreeExtents >= ceildiv(thr[t].len,
                                   bytes_per_sector * sectors_per_granule))
        => LET e == directory_lookup(pretty_filename(thr[t].name,
                                                     thr[t].ext))
           IN  /\ thr[t].outcome = "ok"
               /\ e.err = "none" /\ e.found
               /\ ValidEntry(e.dentry.first_granule,
                             e.dentry.last_sector_bytes_used)
               /\ TotalBytes(Logical(e.dentry.first_granule,
                                     e.dentry.last_sector_bytes_used))
                     = thr[t].len

\* C10: the body of write_new_file runs only while its thread holds the
\* lock, from before its scans to after its last write, and the lock has
\* one holder: no two calls are inside the body at once, so no two calls
\* scan for or claim a directory slot or an extent at the same time.
C10_WritersMutuallyExcluded ==
    /\ \A t \in Threads : thr[t].pc = "body" <=> lock = t
    /\ \A t1, t2 \in Threads :
          (thr[t1].pc = "body" /\ thr[t2].pc = "body") => t1 = t2
    /\ \A t \in Threads :
          thr[t].pc = "returned" => thr[t].outcome # "AssertionError"

\* one call is inside the body holding the lock while another call has
\* been made and waits for the lock
C10_Witness ==
    \E t1, t2 \in Threads :
        /\ t1 # t2
        /\ thr[t1].pc = "body" /\ lock = t1
        /\ thr[t2].pc = "lock"

----------------------------------------------------------------------------
(* Readers beside writers                                                  *)

\* the reads a client makes while other threads call write_new_file: the
\* directory listing, and the sizes and the content of the entry A.BAS
\* (first granule 5, 100 bytes used in the last sector)
NextRW ==
    \/ NextWrite
    \/ \E include_free \in BOOLEAN : StartEnumerate(include_free)
    \/ DirStep
    \/ StartCall("file_sizes", 5, 100, 0, 0)
    \/ StartCall("read", 5, 100, Huge, 0)
    \/ GenFetch
    \/ Consume
    \/ GenResume
    \/ Return

SpecRW == InitWrite /\ [][NextRW]_vars

\* a read operation has made some of its accesses to the backing store and
\* has more to make
ReaderMidway ==
    /\ call.status = "running"
    /\ (call.i > 0 \/ Len(call.out) > 0)

\* C11: read operations serialize behind the lock of the writers: while a
\* write_new_file call is inside its locked body no read operation is
\* part-way through its accesses to the backing store, so a reader runs
\* wholly before or wholly after the writer and sees no intermediate
\* image.
C11_ReadersSerializedWithWriters ==
    \A t \in Threads : thr[t].pc = "body" => ~ReaderMidway

\* C12: a read with no bytes left to deliver makes no access to the
\* backing store: once bytes_remaining is 0 (from the start when length
\* is 0) no further map byte is read and no further pread of content is
\* made.
C12_NoAccessWhenNothingLeft ==
    [][(call.op = "read" /\ call.status = "running" /\ call.remaining = 0)
          => (Len(call'.out) <= Len(call.out)
              /\ call'.preads <= call.preads)]_vars

----------------------------------------------------------------------------
(* Geometry calls                                                          *)

\* backing-store lengths tried: empty, below one sector, one byte short of
\* the minimum of 324 sectors, the minimum, the minimum and one byte, 37
\* tracks less 9 sectors, 35 tracks, 35 tracks and 100 bytes, 35 tracks
\* and a sector, 80 tracks
GeomSizes == {0, 255, 324 * 256 - 1, 324 * 256, 324 * 256 + 1, 657 * 256,
              630 * 256, 630 * 256 + 100, 631 * 256, 1440 * 256}

\* sector_count, lines 210-212: the OddSizeWarning for a length that is not
\* a multiple of the sector size
sector_count_warns(n) ==
    (bytes_per_sector - (n % bytes_per_sector)) % bytes_per_sector # 0

\* granule_count, lines 220-223: the warning of sector_count, or its own
\* for a sector count that is not a multiple of the granule size
granule_count_warns(n) ==
    \/ sector_count_warns(n)
    \/ /\ sector_count(n).err = "none"
       /\ (sectors_per_granule
             - ((sector_count(n).val - sectors_per_track)
                  % sectors_per_granule)) % sectors_per_granule # 0

\* a client calls sector_count(); the size is probed under the lock
SectorCount ==
    /\ call.status = "idle"
    /\ lock = 0
    /\ call' = [NoCall EXCEPT
                   !.op = "sector_count",
                   !.raw = sector_count(nbytes).val,
                   !.msg = IF sector_count_warns(nbytes)
                           THEN "OddSizeWarning" ELSE "",
                   !.status = IF sector_count(nbytes).err = "none"
                              THEN "ok" ELSE sector_count(nbytes).err]
    /\ UNCHANGED <<nbytes, gmap, dir, lock, gen, thr>>

\* a client calls granule_count()
GranuleCount ==
    /\ call.status = "idle"
    /\ lock = 0
    /\ call' = [NoCall EXCEPT
                   !.op = "granule_count",
                   !.raw = granule_count(nbytes).val,
                   !.msg = IF granule_count_warns(nbytes)
                           THEN "OddSizeWarning" ELSE "",
                   !.status = IF granule_count(nbytes).err = "none"
                              THEN "ok" ELSE granule_count(nbytes).err]
    /\ UNCHANGED <<nbytes, gmap, dir, lock, gen, thr>>

\* a client calls granule_range_sectors(granule)
GranuleRangeSectors(granule) ==
    /\ call.status = "idle"
    /\ call' = [NoCall EXCEPT
                   !.op = "granule_range_sectors", !.status = "ok",
                   !.first = granule,
                   !.chunks = <<granule_range_sectors(granule)>>]
    /\ UNCHANGED <<nbytes, gmap, dir, lock, gen, thr>>

InitGeom ==
    /\ nbytes \in GeomSizes
    /\ gmap = [g \in 0..(max_granules - 1) |-> 255]
    /\ dir = FormattedDir
    /\ lock = 0
    /\ call = NoCall
    /\ gen = NoGen
    /\ thr = NoThreads

NextGeom ==
    \/ SectorCount
    \/ GranuleCount
    \/ \E granule \in 0..(max_granules - 1) : GranuleRangeSectors(granule)
    \/ Return

SpecGeom == InitGeom /\ [][NextGeom]_vars

\* C13: for every extent index 0..191 the span is 9 consecutive sectors
\* outside the directory track (sectors 306..323): [9g, 9g+9) for g <= 33
\* and [9g+18, 9g+27) for g >= 34; the spans of distinct extents are
\* disjoint and increase with the index.
C13_ExtentSpanSkipsDirectoryTrack ==
    call.op = "granule_range_sectors" =>
        LET g == call.first
            sp == call.chunks[1]
        IN  /\ call.status = "ok"
            /\ sp[2] - sp[1] = 9
            /\ (sp[2] <= 306 \/ sp[1] >= 324)
            /\ g <= 33 => sp = <<9 * g, 9 * g + 9>>
            /\ g >= 34 => sp = <<9 * g + 18, 9 * g + 27>>
            /\ \A h \in 0..(max_granules - 1) :
                  h < g => granule_range_sectors(h)[2] <= sp[1]

\* the span of extent 34, the first one beyond the directory track
C13_Witness ==
    /\ call.op = "granule_range_sectors"
    /\ call.first = 34
    /\ call.chunks = <<(<<324, 333>>)>>

\* C14: for a backing store of n bytes sector_count() fails with
\* FilesystemFatalError exactly when floor(n/256) < 324 and otherwise
\* returns floor(n/256); granule_count() then returns
\* floor((sector_count - 18) / 9); a length that is not a multiple of the
\* sector or granule size gives a warning only; 35 tracks give 630 and 68.
C14_SectorAndExtentCount ==
    LET q == nbytes \div 256
        odd == nbytes % 256 # 0
    IN  /\ call.op = "sector_count" =>
              /\ call.status \in {"ok", "FilesystemFatalError"}
              /\ call.status = "FilesystemFatalError" <=> q < 324
              /\ call.status = "ok" => call.raw = q
              /\ odd <=> call.msg = "OddSizeWarning"
              /\ nbytes = 35 * 18 * 256 => call.raw = 630
        /\ call.op = "granule_count" =>
              /\ call.status \in {"ok", "FilesystemFatalError"}
              /\ call.status = "FilesystemFatalError" <=> q < 324
              /\ call.status = "ok" => call.raw = (q - 18) \div 9
              /\ (odd \/ (q >= 324 /\ (q - 18) % 9 # 0))
                    <=> call.msg = "OddSizeWarning"
              /\ nbytes = 35 * 18 * 256 => call.raw = 68

\* granule_count has returned 34 for an image of 324 sectors and one byte,
\* with a warning and no failure
C14_Witness ==
    /\ call.op = "granule_count"
    /\ nbytes = 324 * 256 + 1
    /\ call.status = "ok" /\ call.raw = 34
    /\ call.msg = "OddSizeWarning"

----------------------------------------------------------------------------
(* Counting and statistics                                                 *)

\* read_granule_map: the bytes of the map, named by their length
read_granule_map ==
    LET r == granule_map_range(nbytes)
        p == pread(nbytes, r.val[2] - r.val[1], r.val[1])
    IN  IF r.err # "none" THEN r
        ELSE IF p.err # "none" THEN p
        ELSE Ok(p.val[2] - p.val[1])

\* count_granules: every map byte is decoded in index order with
\* last_sector_bytes_used = bytes_per_sector; the first byte that does not
\* decode ends the call with its failure, otherwise the bytes are counted
\* by their free flag
count_granules ==
    LET m == read_granule_map
        gi(i) == GranuleInfo_fromraw(i, gmap[i], bytes_per_sector)
        failing == {i \in 0..(m.val - 1) : gi(i).err # "none"}
        first == CHOOSE i \in failing : \A j \in failing : i <= j
        free_count == Cardinality({i \in 0..(m.val - 1) : gi(i).free})
    IN  IF m.err # "none" THEN m
        ELSE IF failing # {} THEN Raise(gi(first).err)
        ELSE Ok(<<m.val, free_count, m.val - free_count>>)

\* list(iter_directory_entries(include_free=...)): the slots are read and
\* decoded in slot order; the first read that fails ends the call,
\* otherwise the entries that are not skipped are collected in that order
list_directory_entries(include_free) ==
    LET slots == 0..(max_directory_entries - 1)
        failing == {i \in slots : read_directory_entry(i).err # "none"}
        first == CHOOSE i \in failing : \A j \in failing : i <= j
        dentry(i) == DirectoryEntry_fromraw(i, read_directory_entry(i).val)
        yielded(d) == ~d.null /\ (include_free \/ ~d.free)
    IN  IF failing # {} THEN Raise(read_directory_entry(first).err)
        ELSE Ok(SelectSeq([k \in 1..max_directory_entries |->
                              dentry(k - 1)], yielded))

count_directory_entries ==
    LET l == list_directory_entries(TRUE)
        isfree(d) == d.free
        isused(d) == ~d.free
    IN  IF l.err # "none" THEN l
        ELSE Ok(<<Len(l.val), Len(SelectSeq(l.val, isfree)),
                  Len(SelectSeq(l.val, isused))>>)

\* get_fs_stats: the two counts are taken, then the arguments of
\* FilesystemStats are evaluated in order; size_in_granules calls
\* sector_count() and then reads the name sectors_per_granule, which no
\* scope of the module binds (it is an attribute of Geometry), so the
\* FilesystemStats value is never built
get_fs_stats ==
    LET g == count_granules
        d == count_directory_entries
        sc == sector_count(nbytes)
    IN  IF g.err # "none" THEN g
        ELSE IF d.err # "none" THEN d
        ELSE IF sc.err # "none" THEN sc
        ELSE Raise("NameError")

\* a client takes the outcome r of the k-th of two successive calls of op
TakeOutcome(op, r) ==
    /\ \/ call.status = "idle"
       \/ call.op = op /\ call.status = "running" /\ call.i = 1
    /\ call' = [NoCall EXCEPT
                   !.op = op, !.i = call.i + 1,
                   !.entries = Append(call.entries, r),
                   !.status = IF call.i = 0 THEN "running"
                              ELSE IF call.entries[1].err # "none"
                              THEN call.entries[1].err
                              ELSE IF r.err # "none" THEN r.err
                              ELSE "ok"]
    /\ UNCHANGED <<nbytes, gmap, dir, lock, gen, thr>>

\* count_granules(), once; the size probe of the map range takes the lock
CountGranules ==
    /\ call.status = "idle"
    /\ lock = 0
    /\ call' = [NoCall EXCEPT
                   !.op = "count_granules",
                   !.entries = count_granules.val,
                   !.status = IF count_granules.err = "none"
                              THEN "ok" ELSE count_granules.err]
    /\ UNCHANGED <<nbytes, gmap, dir, lock, gen, thr>>

\* get_fs_stats(), twice in a row, the outcome of each call kept
GetFsStats ==
    /\ lock = 0
    /\ TakeOutcome("stats", get_fs_stats)

\* list(iter_directory_entries(include_free=...)), twice in a row
ListDirectory ==
    \E include_free \in BOOLEAN :
        /\ call.status = "running" => call.include_free = include_free
        /\ TakeOutcome("list", list_directory_entries(include_free))
        /\ call'.include_free = include_free

\* map bytes tried: a continuation, the terminals 0xC0, 0xC3 and 0xC9, free
StatsByteVals == {9, 192, 195, 201, 255}

\* directories tried: formatted; A.BAS in slot 0; a null slot, a deleted
\* entry and A.BAS in the last slot
StatsDirVals ==
    {FormattedDir,
     [FormattedDir EXCEPT ![0] = SlotUsedA],
     [FormattedDir EXCEPT ![0] = SlotNull, ![1] = SlotDeleted,
                          ![71] = SlotUsedA]}

InitStats ==
    /\ nbytes \in SizeVals
    /\ \E f \in [Tracked -> StatsByteVals] :
          gmap = [g \in 0..(max_granules - 1) |->
                     IF g \in Tracked THEN f[g] ELSE 255]
    /\ dir \in StatsDirVals
    /\ lock = 0
    /\ call = NoCall
    /\ gen = NoGen
    /\ thr = NoThreads

NextStats ==
    \/ CountGranules
    \/ GetFsStats
    \/ ListDirectory
    \/ Return

SpecStats == InitStats /\ [][NextStats]_vars

\* every byte of the map is a continuation, a terminal code or the free code
AllCodesDefined ==
    \A g \in 0..(MapLen - 1) :
        gmap[g] < 192 \/ (192 <= gmap[g] /\ gmap[g] <= 201) \/ gmap[g] = 255

\* C15: on an image of at least the minimum size, two successive calls of
\* stats() return the same FilesystemStats value and two successive
\* enumerations return the same sequence of entries.
C15_StatsAndEnumerateIdempotent ==
    (call.op \in {"stats", "list"} /\ call.i = 2)
       => /\ call.entries[1].err = "none"
          /\ call.entries[2] = call.entries[1]

\* C16: on a map of defined codes count_granules() returns (total, free,
\* used) with total = min(granule_count(), 192), free the number of 0xFF
\* bytes and used = total - free; a 0xC0 byte counts as used and does not
\* make it fail.
C16_CountSummary ==
    (call.op = "count_granules" /\ AllCodesDefined)
       => /\ call.status = "ok"
          /\ call.entries
                = <<MapLen, FreeExtents, MapLen - FreeExtents>>

----------------------------------------------------------------------------
(* Progress of write_new_file                                              *)

\* a thread that is inside the body of write_new_file keeps running
SpecWriteLive ==
    /\ InitWrite
    /\ [][NextWrite]_vars
    /\ \A t \in Threads : WF_vars(WriteBody(t))

====
